---- MODULE Spec2Model ----
(***************************************************************************)
(* Animation controllers of the landing page (components/animations/useGSAP *)
(* and the lazy image's useIntersectionObserver) and the AnimatedNumber     *)
(* counter of the results section, modelled as one React component instance *)
(* that uses one controller.                                                *)
(*                                                                          *)
(* Units: opacity and scale in hundredths (1 = 100, 0.9 = 90), y in px,     *)
(* durations in tenths of a second, parallax speed in tenths, scroll        *)
(* progress in percent, yPercent in tenths of a percent.                    *)
(*                                                                          *)
(* React: a setState that changes a value schedules a render               *)
(* (renderPending); a render commits the state, runs the cleanup of every   *)
(* effect whose dependencies changed and then the effect again.  The        *)
(* effects of useGSAPAnimation, useScrollAnimation and useStaggerAnimation  *)
(* depend on mergedConfig, an object literal built in the function body,    *)
(* and the effect of useParallax on debugConfig, likewise: their            *)
(* dependencies differ on every render.                                     *)
(*                                                                          *)
(* GSAP: gsap.to creates a tween that stays on the element until it         *)
(* completes or is killed (overwrite defaults to false, so tweens on one    *)
(* element coexist); kill leaves the element where the tween had brought it.*)
(*                                                                          *)
(* IntersectionObserver: observe() is followed by a first notification with *)
(* the target's current status, later notifications follow a change of      *)
(* status; each observer here watches one target and a notification carries *)
(* one entry.                                                               *)
(***************************************************************************)
EXTENDS Integers, FiniteSets, Sequences, TLC

\* ---------------------------------------------------------------- bounds
\* frames a tween takes from start to completion
TweenSteps == 2
\* interval ticks of a count-up (const steps = 60)
Steps == 3
\* tweens the animation engine can hold on the element at once
MaxTweens == 2
\* the count of issued transitions saturates here
MaxIssued == 2
\* children of a stagger container
MaxChildren == 2
\* runs of HeroSection's video effect that get to attemptVideoLoad
MaxChains == 2
\* manual interactions with SolutionSection
MaxClicks == 2
\* seconds the clock of CountdownTimer runs
MaxTime == 4

VARIABLES
    hook,               \* the controller this component instance uses
    lifecycle,          \* "new" (not yet committed), "mounted", "unmounted"
    element,            \* elementRef.current / containerRef.current is a node
    config,             \* the config argument of the hook
    children,           \* container.children.length (stagger)
    inView,             \* the element currently intersects the viewport
    entered,            \* the element has intersected the viewport since Init
    reducedMotion,      \* prefers-reduced-motion: reduce is set in the host
    visual,             \* the element's style as GSAP sees it
    tweens,             \* the engine's tweens on the element, by slot
    issued,             \* number of gsap.to / timeline.to calls so far
    renderPending,      \* a state change awaits its render
    isVisible,          \* useScrollAnimation state
    hasAnimated,        \* useScrollAnimation state
    closureHasAnimated, \* hasAnimated as captured by the observer callback
    animationRef,       \* animationRef.current (0 = null), a slot of tweens
    observer,           \* the IntersectionObserver of the last effect run
    reported,           \* status the observer last notified ("none": not yet)
    isReady,            \* useGSAPAnimation / useStaggerAnimation state
    timelineRef,        \* timelineRef.current (0 = null)
    timelineTargets,    \* children.length as read by the last effect run
    enterAnimationRef,  \* useHoverAnimation (0 = null)
    leaveAnimationRef,  \* useHoverAnimation (0 = null)
    isHovered,          \* useHoverAnimation state
    pointerInside,      \* the pointer is over the element
    handlersBound,      \* the caller has the two hover handlers on the element
    scrollTriggerRef,   \* useParallax: "none", "live", "killed"
    liveTriggers,       \* ScrollTriggers of this instance not yet killed
    progress,           \* self.progress of the last onUpdate, in percent
    childStyles,        \* the styles of the container's children (stagger)
    isIntersecting,     \* useIntersectionObserver state
    enabled,            \* AnimatedNumber: the enabled prop of the last render
    currentValue,       \* AnimatedNumber state
    numberHasAnimated,  \* AnimatedNumber state hasAnimated
    current,            \* AnimatedNumber: ticks the interval callback has run
    timer,              \* AnimatedNumber: "none", "running", "cleared"
    effectDeps,         \* AnimatedNumber: [enabled, hasAnimated] of the last
                        \* effect run
    videoLoaded,        \* HeroSection state
    videoError,         \* HeroSection state
    connectionSpeed,    \* HeroSection state: "unknown", "fast", "slow"
    isMobile,           \* HeroSection state
    userPreference,     \* HeroSection state: "video", "static"
    heroDeps,           \* [userPreference, connectionSpeed, isMobile] of the
                        \* last render
    chains,             \* the attemptVideoLoad closures, one per effect run
    heroLoads,          \* number of video.load() calls so far
    probe,              \* the speed-test image: "none", "pending"
    netApi,             \* navigator.connection exists: "api", "none"
    activeStep,         \* SolutionSection state, as index into solutionSteps
    isAutoPlay,         \* SolutionSection state
    previewProgress,    \* SolutionSection state
    stepTicks,          \* interval ticks since the active step last changed
    clicks,             \* manual interactions with SolutionSection so far
    lastAdvance,        \* the step autoplay last moved on from (0: none yet)
    now,                \* CountdownTimer: the clock, in seconds
    targetDate,         \* CountdownTimer: the targetDate prop, in seconds
    timeLeft            \* CountdownTimer state

envVars    == <<hook, element, config, children, reducedMotion>>
viewVars   == <<inView, entered>>
engineVars == <<visual, tweens, issued>>
scrollVars == <<isVisible, hasAnimated, closureHasAnimated>>
obsVars    == <<observer, reported>>
hoverVars  == <<enterAnimationRef, leaveAnimationRef, isHovered, pointerInside,
                handlersBound>>
paraVars   == <<scrollTriggerRef, liveTriggers, progress>>
numberVars == <<enabled, currentValue, numberHasAnimated, current, timer,
                effectDeps>>
heroVars   == <<videoLoaded, videoError, connectionSpeed, isMobile,
                userPreference, heroDeps, chains, heroLoads, probe, netApi>>
solutionVars == <<activeStep, isAutoPlay, previewProgress, stepTicks, clicks,
                  lastAdvance>>
countdownVars == <<now, targetDate, timeLeft>>
sectionVars == <<heroVars, solutionVars, countdownVars>>
otherRefs  == <<animationRef, timelineRef, timelineTargets, isReady,
                isIntersecting, childStyles, numberVars, sectionVars>>
\* every variable of the animation controllers and of AnimatedNumber
hookVars   == <<envVars, viewVars, engineVars, scrollVars, obsVars, hoverVars,
                paraVars, animationRef, timelineRef, timelineTargets, isReady,
                isIntersecting, childStyles, numberVars>>

vars == <<hook, lifecycle, element, config, children, inView, entered,
          reducedMotion, visual, tweens, issued, renderPending, isVisible,
          hasAnimated, closureHasAnimated, animationRef, observer, reported,
          isReady, timelineRef, timelineTargets, enterAnimationRef,
          leaveAnimationRef,
          isHovered, pointerInside, handlersBound, scrollTriggerRef,
                   liveTriggers, progress, childStyles,
          isIntersecting, enabled, currentValue, numberHasAnimated, current,
          timer, effectDeps, videoLoaded, videoError, connectionSpeed,
          isMobile, userPreference, heroDeps, chains, heroLoads, probe,
          netApi, activeStep, isAutoPlay, previewProgress, stepTicks, clicks,
          lastAdvance, now, targetDate, timeLeft>>

\* ------------------------------------------------------------ JS objects
\* { ...a, ...b }
Merge(a, b) ==
    [k \in (DOMAIN a) \cup (DOMAIN b) |-> IF k \in DOMAIN b THEN b[k] ELSE a[k]]

NoProps == [k \in {} |-> 0]

\* config.transform, absent when the caller passes none
TransformOf(c) == IF "transform" \in DOMAIN c THEN c.transform ELSE NoProps

DEFAULT_ANIMATION_CONFIG ==
    [duration |-> 8, delay |-> 0, transform |-> [opacity |-> 100]]

\* const mergedConfig = { ...DEFAULT_ANIMATION_CONFIG, ...config }
mergedConfig == Merge(DEFAULT_ANIMATION_CONFIG, config)

\* the style of an element no controller has touched
RestStyle == [opacity |-> 100, y |-> 0, scale |-> 100, yPercent |-> 0]

\* gsap.set(element, props)
GsapSet(style, props) == Merge(style, props)

\* ------------------------------------------------------------ the engine
Slots == 1..MaxTweens

NoTween == [status |-> "free", progress |-> 0, kind |-> "none"]

\* a tween the engine still holds: playing, paused or playing backwards
Alive(t) == t.status \in {"active", "paused", "reversing"}

LiveTweens == {s \in Slots : Alive(tweens[s])}

\* a slot gsap.to can use: its tween is over and no ref in keep points to it
FreeSlots(tw, keep) == {s \in Slots : ~Alive(tw[s]) /\ s \notin keep}

NewSlot(tw, keep) == CHOOSE s \in FreeSlots(tw, keep) :
                        \A t \in FreeSlots(tw, keep) : s <= t

\* gsap.to(element, props): a new running tween in slot s
GsapTo(tw, s, kind) ==
    [tw EXCEPT ![s] = [status |-> "active", progress |-> 0, kind |-> kind]]

\* tween.kill() on ref.current, guarded by "if (ref.current)"
Kill(tw, ref) ==
    IF ref # 0 /\ Alive(tw[ref])
    THEN [tw EXCEPT ![ref].status = "killed"]
    ELSE tw

Bump(n) == IF n < MaxIssued THEN n + 1 ELSE n

\* ---------------------------------------------------- useScrollAnimation
\* the initial state set at effect setup
SA_Hidden ==
    Merge([opacity |-> 0, y |-> 50, scale |-> 90], TransformOf(mergedConfig))

\* the properties of scrollAnimationProps the tween drives
SA_Target ==
    Merge([opacity |-> 100, y |-> 0, scale |-> 100], TransformOf(mergedConfig))

\* configs the sections pass (ProblemSection headline and badge) and the
\* default argument {}
ScrollConfigs ==
    { NoProps,
      [duration |-> 10, transform |-> [opacity |-> 100, y |-> 0]],
      [duration |-> 8, delay |-> 6, transform |-> [opacity |-> 100, scale |-> 100]] }

Status(b) == IF b THEN "in" ELSE "out"

\* the cleanup without its kill
SA_CleanupTweens_NoKill(tw, ref) == tw

\* cleanup: if (animationRef.current) animationRef.current.kill()
SA_CleanupTweens(tw, ref) == Kill(tw, ref)

\* cleanup: if (observerRef.current) observerRef.current.disconnect()
SA_CleanupObserver(obs) == IF obs # "none" THEN "disconnected" ELSE obs

\* the effect body: hide the element, create the observer, observe
SA_Effect ==
    /\ visual' = GsapSet(visual, SA_Hidden)
    /\ observer' = "observing"
    /\ reported' = "none"
    /\ closureHasAnimated' = hasAnimated

SA_Mount ==
    /\ hook = "scroll"
    /\ lifecycle = "new"
    /\ lifecycle' = "mounted"
    /\ IF element
       THEN SA_Effect
       ELSE UNCHANGED <<visual, observer, reported, closureHasAnimated>>
    /\ UNCHANGED <<envVars, viewVars, tweens, issued, renderPending, isVisible,
                   hasAnimated, hoverVars, paraVars, otherRefs>>

\* a render of the owning component: the dependencies [mergedConfig, ...]
\* changed, so the cleanup of the previous run and the effect run again
SA_Commit ==
    /\ hook = "scroll"
    /\ renderPending' = FALSE
    /\ IF element
       THEN /\ tweens' = SA_CleanupTweens(tweens, animationRef)
            /\ SA_Effect
       ELSE UNCHANGED <<tweens, visual, observer, reported, closureHasAnimated>>
    /\ UNCHANGED <<lifecycle, envVars, viewVars, issued, isVisible, hasAnimated,
                   hoverVars, paraVars, otherRefs>>

\* the test without entry.isIntersecting
SA_Qualifies_AnyEntry(intersecting, animated) == ~animated

\* if (entry.isIntersecting && !hasAnimated)
SA_Qualifies(intersecting, animated) == intersecting /\ ~animated

\* the observer callback, entries.forEach with the one entry of the target
SA_Intersect ==
    /\ hook = "scroll"
    /\ lifecycle = "mounted"
    /\ observer = "observing"
    /\ reported # Status(inView)
    /\ IF SA_Qualifies(inView, closureHasAnimated)
       THEN /\ FreeSlots(tweens, {animationRef}) # {}
            /\ LET s == NewSlot(tweens, {animationRef}) IN
                 /\ tweens' = GsapTo(tweens, s, "entrance")
                 /\ animationRef' = s
            /\ isVisible' = TRUE
            /\ renderPending' = (renderPending \/ ~isVisible)
            /\ issued' = Bump(issued)
            /\ observer' = "unobserved"
            /\ reported' = "in"
       ELSE /\ reported' = Status(inView)
            /\ UNCHANGED <<tweens, animationRef, isVisible, renderPending,
                           issued, observer>>
    /\ UNCHANGED <<lifecycle, envVars, viewVars, visual, hasAnimated,
                   closureHasAnimated, isReady, timelineRef, timelineTargets,
                   isIntersecting, numberVars, sectionVars,
                   childStyles, hoverVars, paraVars>>

SA_Unmount ==
    /\ hook = "scroll"
    /\ lifecycle = "mounted"
    /\ lifecycle' = "unmounted"
    /\ renderPending' = FALSE
    /\ IF element
       THEN /\ observer' = SA_CleanupObserver(observer)
            /\ tweens' = SA_CleanupTweens(tweens, animationRef)
       ELSE UNCHANGED <<observer, tweens>>
    /\ UNCHANGED <<envVars, viewVars, visual, issued, scrollVars, reported,
                   hoverVars, paraVars, otherRefs>>

\* ------------------------------------------------------ useGSAPAnimation
GA_Hidden == Merge([opacity |-> 0, y |-> 30], TransformOf(mergedConfig))

GA_Target == Merge([opacity |-> 100, y |-> 0], TransformOf(mergedConfig))

\* cleanup: if (animationRef.current) animationRef.current.kill()
GA_CleanupTweens(tw, ref) == Kill(tw, ref)

\* the effect body on the tweens tw left by the cleanup: hide the element
\* and start the tween
GA_Effect(tw) ==
    /\ FreeSlots(tw, {}) # {}
    /\ visual' = GsapSet(visual, GA_Hidden)
    /\ tweens' = GsapTo(tw, NewSlot(tw, {}), "entrance")
    /\ animationRef' = NewSlot(tw, {})
    /\ issued' = Bump(issued)

GA_Mount ==
    /\ hook = "gsap"
    /\ lifecycle = "new"
    /\ lifecycle' = "mounted"
    /\ IF element
       THEN GA_Effect(tweens)
       ELSE UNCHANGED <<visual, tweens, animationRef, issued>>
    /\ UNCHANGED <<envVars, viewVars, renderPending, scrollVars, obsVars,
                   hoverVars, paraVars, timelineRef, timelineTargets, isReady,
                   isIntersecting, numberVars, sectionVars,
                   childStyles>>

\* a render: cleanup (kill, animationRef.current = null), then the effect
GA_Commit ==
    /\ hook = "gsap"
    /\ renderPending' = FALSE
    /\ IF element
       THEN GA_Effect(GA_CleanupTweens(tweens, animationRef))
       ELSE UNCHANGED <<visual, tweens, animationRef, issued>>
    /\ UNCHANGED <<lifecycle, envVars, viewVars, scrollVars, obsVars,
                   hoverVars, paraVars, timelineRef, timelineTargets, isReady,
                   isIntersecting, numberVars, sectionVars,
                   childStyles>>

\* controls.restart(): if (animationRef.current) animationRef.current.restart()
\* the tween goes back to its first frame, where the effect had put the
\* element, and runs again
restart ==
    /\ hook = "gsap"
    /\ lifecycle = "mounted"
    /\ animationRef # 0
    /\ tweens' = [tweens EXCEPT ![animationRef].status = "active",
                                ![animationRef].progress = 0]
    /\ visual' = GsapSet(visual, GA_Hidden)
    /\ UNCHANGED <<lifecycle, envVars, viewVars, issued, renderPending,
                   scrollVars, obsVars, hoverVars, paraVars, otherRefs>>

\* controls.pause(): if (animationRef.current) animationRef.current.pause()
pause ==
    /\ hook = "gsap"
    /\ lifecycle = "mounted"
    /\ animationRef # 0
    /\ tweens[animationRef].status \in {"active", "reversing"}
    /\ tweens' = [tweens EXCEPT ![animationRef].status = "paused"]
    /\ UNCHANGED <<lifecycle, envVars, viewVars, visual, issued, renderPending,
                   scrollVars, obsVars, hoverVars, paraVars, otherRefs>>

\* controls.play(): if (animationRef.current) animationRef.current.play()
\* the tween runs forward from where it stands
play ==
    /\ hook = "gsap"
    /\ lifecycle = "mounted"
    /\ animationRef # 0
    /\ tweens[animationRef].status \in {"paused", "reversing"}
    /\ tweens' = [tweens EXCEPT ![animationRef].status =
                      IF tweens[animationRef].progress = TweenSteps
                      THEN "done" ELSE "active"]
    /\ UNCHANGED <<lifecycle, envVars, viewVars, visual, issued, renderPending,
                   scrollVars, obsVars, hoverVars, paraVars, otherRefs>>

\* controls.reverse(): if (animationRef.current) animationRef.current.reverse()
\* the tween runs backwards from where it stands; at its start it stands still
reverse ==
    /\ hook = "gsap"
    /\ lifecycle = "mounted"
    /\ animationRef # 0
    /\ tweens[animationRef].status \in {"active", "paused", "done"}
    /\ tweens' = [tweens EXCEPT ![animationRef].status =
                      IF tweens[animationRef].progress = 0
                      THEN "paused" ELSE "reversing"]
    /\ UNCHANGED <<lifecycle, envVars, viewVars, visual, issued, renderPending,
                   scrollVars, obsVars, hoverVars, paraVars, otherRefs>>

GA_Unmount ==
    /\ hook = "gsap"
    /\ lifecycle = "mounted"
    /\ lifecycle' = "unmounted"
    /\ renderPending' = FALSE
    /\ IF element
       THEN /\ tweens' = GA_CleanupTweens(tweens, animationRef)
            /\ animationRef' = 0
       ELSE UNCHANGED <<tweens, animationRef>>
    /\ UNCHANGED <<envVars, viewVars, visual, issued, scrollVars, obsVars,
                   hoverVars, paraVars, timelineRef, timelineTargets, isReady,
                   isIntersecting, numberVars, sectionVars,
                   childStyles>>

\* --------------------------------------------------- useStaggerAnimation
\* config carries the hook's second argument as config.stagger, in frames
StaggerOf(c) == IF "stagger" \in DOMAIN c THEN c.stagger ELSE 1

ST_Hidden ==
    Merge([opacity |-> 0, y |-> 30, scale |-> 90], TransformOf(mergedConfig))

ST_Target ==
    Merge([opacity |-> 100, y |-> 0, scale |-> 100], TransformOf(mergedConfig))

\* the default arguments, and what ProblemSection passes for its grid
StaggerConfigs ==
    { NoProps,
      [duration |-> 8, transform |-> [opacity |-> 100, y |-> 0], stagger |-> 2] }

\* the effect without its return on an empty container
ST_Runs_NoChildCheck == element

\* the effect goes past its two early returns
ST_Runs == element /\ children > 0

\* cleanup: if (timelineRef.current) timelineRef.current.kill()
ST_CleanupTweens(tw, ref) == Kill(tw, ref)

\* the effect body: hide all children, create the timeline, timeline.to
ST_Effect(tw) ==
    /\ FreeSlots(tw, {}) # {}
    /\ childStyles' = [i \in 1..children |-> GsapSet(childStyles[i], ST_Hidden)]
    /\ tweens' = GsapTo(tw, NewSlot(tw, {}), "stagger")
    /\ timelineRef' = NewSlot(tw, {})
    /\ timelineTargets' = children
    /\ issued' = Bump(issued)

ST_Mount ==
    /\ hook = "stagger"
    /\ lifecycle = "new"
    /\ lifecycle' = "mounted"
    /\ IF ST_Runs
       THEN ST_Effect(tweens)
       ELSE UNCHANGED <<childStyles, tweens, timelineRef, timelineTargets,
                   issued>>
    /\ UNCHANGED <<envVars, viewVars, visual, renderPending, scrollVars,
                   obsVars, hoverVars, paraVars, animationRef, isReady,
                   isIntersecting, numberVars, sectionVars>>

ST_Commit ==
    /\ hook = "stagger"
    /\ renderPending' = FALSE
    /\ IF ST_Runs
       THEN ST_Effect(ST_CleanupTweens(tweens, timelineRef))
       ELSE UNCHANGED <<childStyles, tweens, timelineRef, timelineTargets,
                   issued>>
    /\ UNCHANGED <<lifecycle, envVars, viewVars, visual, scrollVars, obsVars,
                   hoverVars, paraVars, animationRef, isReady, isIntersecting,
                   numberVars, sectionVars>>

ST_Unmount ==
    /\ hook = "stagger"
    /\ lifecycle = "mounted"
    /\ lifecycle' = "unmounted"
    /\ renderPending' = FALSE
    /\ IF ST_Runs
       THEN /\ tweens' = ST_CleanupTweens(tweens, timelineRef)
            /\ timelineRef' = 0
       ELSE UNCHANGED <<tweens, timelineRef>>
    /\ UNCHANGED <<envVars, viewVars, visual, issued, scrollVars, obsVars,
                   hoverVars, paraVars, animationRef, isReady, isIntersecting,
                   numberVars, sectionVars,
                   childStyles, timelineTargets>>

\* an element is appended to the container (a child component renders one
\* more node); the owner of the hook does not render
ST_AddChild ==
    /\ hook = "stagger"
    /\ lifecycle = "mounted"
    /\ element
    /\ children < MaxChildren
    /\ children' = children + 1
    /\ childStyles' = Append(childStyles, RestStyle)
    /\ UNCHANGED <<lifecycle, hook, element, config, reducedMotion, viewVars,
                   engineVars, renderPending, scrollVars, obsVars, hoverVars,
                   paraVars, animationRef, timelineRef, timelineTargets,
                   isReady, isIntersecting, numberVars, sectionVars>>

\* ----------------------------------------------------- useHoverAnimation
\* config is the pair of arguments [enter |-> enterConfig, leave |-> leaveConfig]
HA_EnterTarget == Merge([scale |-> 105, y |-> -5], TransformOf(config.enter))

HA_LeaveTarget == Merge([scale |-> 100, y |-> 0], TransformOf(config.leave))

\* the default arguments, and what Button passes
HoverConfigs ==
    { [enter |-> NoProps, leave |-> NoProps],
      [enter |-> [transform |-> [scale |-> 102, y |-> -2]],
       leave |-> [transform |-> [scale |-> 100, y |-> 0]]] }

\* Button spreads onMouseEnter and onMouseLeave on the element only while
\* enableAnimation && !isDisabled; the pointer may be anywhere at mount
HA_Mount ==
    /\ hook = "hover"
    /\ lifecycle = "new"
    /\ lifecycle' = "mounted"
    /\ pointerInside' \in BOOLEAN
    /\ handlersBound' \in BOOLEAN
    /\ UNCHANGED <<envVars, viewVars, engineVars, renderPending, scrollVars,
                   obsVars, enterAnimationRef, leaveAnimationRef, isHovered,
                   paraVars, otherRefs>>

\* Button renders with another disabled or loading prop: the handlers come
\* off the element or go back on it
HA_Rebind ==
    /\ hook = "hover"
    /\ lifecycle = "mounted"
    /\ handlersBound' = ~handlersBound
    /\ renderPending' = FALSE
    /\ UNCHANGED <<lifecycle, envVars, viewVars, engineVars, scrollVars,
                   obsVars, enterAnimationRef, leaveAnimationRef, isHovered,
                   pointerInside, paraVars, otherRefs>>

\* the pointer crosses the element's edge while no handler is bound
HA_PointerUnheard ==
    /\ hook = "hover"
    /\ lifecycle = "mounted"
    /\ ~handlersBound
    /\ pointerInside' = ~pointerInside
    /\ UNCHANGED <<lifecycle, envVars, viewVars, engineVars, renderPending,
                   scrollVars, obsVars, enterAnimationRef, leaveAnimationRef,
                   isHovered, handlersBound, paraVars, otherRefs>>

\* handleMouseEnter kills the leave tween and starts an enter tween
HA_EnterTweens(tw, leaveRef) == Kill(tw, leaveRef)

handleMouseEnter ==
    /\ hook = "hover"
    /\ lifecycle = "mounted"
    /\ handlersBound
    /\ ~pointerInside
    /\ pointerInside' = TRUE
    /\ element
    /\ LET tw == HA_EnterTweens(tweens, leaveAnimationRef)
           keep == {leaveAnimationRef}
       IN
         /\ FreeSlots(tw, keep) # {}
         /\ tweens' = GsapTo(tw, NewSlot(tw, keep), "enter")
         /\ enterAnimationRef' = NewSlot(tw, keep)
    /\ isHovered' = TRUE
    /\ renderPending' = (renderPending \/ ~isHovered)
    /\ issued' = Bump(issued)
    /\ UNCHANGED <<lifecycle, envVars, viewVars, visual, scrollVars, obsVars,
                   leaveAnimationRef, handlersBound, paraVars, otherRefs>>

\* handleMouseLeave kills the enter tween and starts a leave tween
HA_LeaveTweens(tw, enterRef) == Kill(tw, enterRef)

handleMouseLeave ==
    /\ hook = "hover"
    /\ lifecycle = "mounted"
    /\ handlersBound
    /\ pointerInside
    /\ pointerInside' = FALSE
    /\ element
    /\ LET tw == HA_LeaveTweens(tweens, enterAnimationRef)
           keep == {enterAnimationRef}
       IN
         /\ FreeSlots(tw, keep) # {}
         /\ tweens' = GsapTo(tw, NewSlot(tw, keep), "leave")
         /\ leaveAnimationRef' = NewSlot(tw, keep)
    /\ isHovered' = FALSE
    /\ renderPending' = (renderPending \/ isHovered)
    /\ issued' = Bump(issued)
    /\ UNCHANGED <<lifecycle, envVars, viewVars, visual, scrollVars, obsVars,
                   enterAnimationRef, handlersBound, paraVars, otherRefs>>

\* the effect has no dependencies: a render runs nothing
HA_Commit ==
    /\ hook = "hover"
    /\ renderPending' = FALSE
    /\ UNCHANGED <<lifecycle, envVars, viewVars, engineVars, scrollVars,
                   obsVars, hoverVars, paraVars, otherRefs>>

\* cleanup at unmount: kill what the two refs point to
HA_CleanupTweens(tw, enterRef, leaveRef) == Kill(Kill(tw, enterRef), leaveRef)

HA_Unmount ==
    /\ hook = "hover"
    /\ lifecycle = "mounted"
    /\ lifecycle' = "unmounted"
    /\ renderPending' = FALSE
    /\ tweens' = HA_CleanupTweens(tweens, enterAnimationRef, leaveAnimationRef)
    /\ UNCHANGED <<envVars, viewVars, visual, issued, scrollVars, obsVars,
                   hoverVars, paraVars, otherRefs>>

\* ----------------------------------------------------------- useParallax
\* config is [speed, properties]: what HeroSection passes, and two others
ParallaxConfigs ==
    { [speed |-> -5, properties |-> [yPercent |-> -500]],
      [speed |-> 5, properties |-> NoProps],
      [speed |-> -5, properties |-> [scale |-> 110]] }

\* self.progress, in percent
ProgressValues == {0, 25, 50, 100}

\* const yPercent = (config.speed * progress * 100) || 0
YPercent(speed, p) == IF speed * p = 0 THEN 0 ELSE speed * p

\* the object passed to gsap.set in onUpdate (force3D does not move anything)
PX_Props(p) == Merge([yPercent |-> YPercent(config.speed, p)], config.properties)

\* the cleanup without its kill
PX_CleanupTriggers_NoKill(n, ref) == n

\* cleanup: if (scrollTriggerRef.current) scrollTriggerRef.current.kill();
\* n is the number of ScrollTriggers alive before it
PX_CleanupTriggers(n, ref) == IF ref = "live" THEN n - 1 ELSE n

PX_Mount ==
    /\ hook = "parallax"
    /\ lifecycle = "new"
    /\ lifecycle' = "mounted"
    /\ IF element
       THEN /\ scrollTriggerRef' = "live"
            /\ liveTriggers' = liveTriggers + 1
       ELSE UNCHANGED <<scrollTriggerRef, liveTriggers>>
    /\ UNCHANGED <<envVars, viewVars, engineVars, renderPending, scrollVars,
                   obsVars, hoverVars, progress, otherRefs>>

\* onUpdate: the page scrolled while the ScrollTrigger is alive
PX_Update ==
    /\ hook = "parallax"
    /\ scrollTriggerRef = "live"
    /\ \E p \in ProgressValues :
         /\ progress' = p
         /\ visual' = GsapSet(visual, PX_Props(p))
    /\ UNCHANGED <<lifecycle, envVars, viewVars, tweens, issued, renderPending,
                   scrollVars, obsVars, hoverVars, scrollTriggerRef,
                   liveTriggers, otherRefs>>

\* a render: cleanup kills the ScrollTrigger, the effect creates another
PX_Commit ==
    /\ hook = "parallax"
    /\ renderPending' = FALSE
    /\ IF element
       THEN /\ scrollTriggerRef' = "live"
            /\ liveTriggers' = PX_CleanupTriggers(liveTriggers,
                   scrollTriggerRef) + 1
       ELSE UNCHANGED <<scrollTriggerRef, liveTriggers>>
    /\ UNCHANGED <<lifecycle, envVars, viewVars, engineVars, scrollVars,
                   obsVars, hoverVars, progress, otherRefs>>

PX_Unmount ==
    /\ hook = "parallax"
    /\ lifecycle = "mounted"
    /\ lifecycle' = "unmounted"
    /\ renderPending' = FALSE
    /\ IF element
       THEN /\ scrollTriggerRef' = "killed"
            /\ liveTriggers' = PX_CleanupTriggers(liveTriggers,
                   scrollTriggerRef)
       ELSE UNCHANGED <<scrollTriggerRef, liveTriggers>>
    /\ UNCHANGED <<envVars, viewVars, engineVars, scrollVars, obsVars,
                   hoverVars, progress, otherRefs>>

\* ----------------------------------------------- useIntersectionObserver
IO_Mount ==
    /\ hook = "io"
    /\ lifecycle = "new"
    /\ lifecycle' = "mounted"
    /\ IF element
       THEN /\ observer' = "observing"
            /\ reported' = "none"
       ELSE UNCHANGED <<observer, reported>>
    /\ UNCHANGED <<envVars, viewVars, engineVars, renderPending, scrollVars,
                   hoverVars, paraVars, otherRefs>>

\* a callback that copies the entry: setIsIntersecting(entry.isIntersecting),
\* and keeps observing
IO_Intersect_Copy ==
    /\ hook = "io"
    /\ lifecycle = "mounted"
    /\ observer = "observing"
    /\ reported # Status(inView)
    /\ reported' = Status(inView)
    /\ isIntersecting' = inView
    /\ renderPending' = (renderPending \/ isIntersecting # inView)
    /\ UNCHANGED <<lifecycle, envVars, viewVars, engineVars, scrollVars,
                   hoverVars, paraVars, animationRef, timelineRef,
                   timelineTargets, isReady, childStyles, observer,
                   numberVars, sectionVars>>

\* the observer callback: ([entry]) => ...
IO_Intersect ==
    /\ hook = "io"
    /\ lifecycle = "mounted"
    /\ observer = "observing"
    /\ reported # Status(inView)
    /\ reported' = Status(inView)
    /\ IF inView
       THEN /\ isIntersecting' = TRUE
            /\ renderPending' = (renderPending \/ ~isIntersecting)
            /\ observer' = "unobserved"
       ELSE UNCHANGED <<isIntersecting, renderPending, observer>>
    /\ UNCHANGED <<lifecycle, envVars, viewVars, engineVars, scrollVars,
                   hoverVars, paraVars, animationRef, timelineRef,
                   timelineTargets, isReady, childStyles, numberVars, sectionVars>>

\* the dependencies [elementRef, threshold, root, rootMargin] do not change:
\* a render runs nothing
IO_Commit ==
    /\ hook = "io"
    /\ renderPending' = FALSE
    /\ UNCHANGED <<lifecycle, envVars, viewVars, engineVars, scrollVars,
                   obsVars, hoverVars, paraVars, otherRefs>>

\* a render of the owner puts the node under the ref (LazyImage's container
\* is one element of its JSX); elementRef is the same object as before, so
\* the effect does not run
IO_Attach ==
    /\ hook = "io"
    /\ lifecycle = "mounted"
    /\ ~element
    /\ element' = TRUE
    /\ renderPending' = FALSE
    /\ UNCHANGED <<lifecycle, hook, config, children, reducedMotion, viewVars,
                   engineVars, scrollVars, obsVars, hoverVars, paraVars,
                   otherRefs>>

\* cleanup: observer.disconnect(), registered when the element was there
IO_Unmount ==
    /\ hook = "io"
    /\ lifecycle = "mounted"
    /\ lifecycle' = "unmounted"
    /\ renderPending' = FALSE
    /\ observer' = IF observer # "none" THEN "disconnected" ELSE observer
    /\ UNCHANGED <<envVars, viewVars, engineVars, scrollVars, reported,
                   hoverVars, paraVars, otherRefs>>

\* -------------------------------------------------------- AnimatedNumber
\* config is [value]: the metrics of ResultsSection
NumberConfigs == {[value |-> 800], [value |-> 532000], [value |-> 42000000]}

\* the cleanup the effect returned: clearInterval(timer)
AN_Cleanup(tm) == IF tm = "running" THEN "cleared" ELSE tm

\* the effect body in a render whose enabled prop is en; tm is the timer as
\* the cleanup of the previous run left it
AN_Effect(en, tm) ==
    /\ effectDeps' = <<en, numberHasAnimated>>
    /\ IF en /\ ~numberHasAnimated
       THEN /\ numberHasAnimated' = TRUE
            /\ renderPending' = TRUE
            /\ current' = 0
            /\ timer' = "running"
       ELSE /\ renderPending' = FALSE
            /\ timer' = tm
            /\ UNCHANGED <<numberHasAnimated, current>>

\* a render with enabled prop en: the effect runs again when one of
\* [value, duration, enabled, hasAnimated] differs from the last run
AN_Render(en) ==
    /\ enabled' = en
    /\ IF <<en, numberHasAnimated>> # effectDeps
       THEN AN_Effect(en, AN_Cleanup(timer))
       ELSE /\ renderPending' = FALSE
            /\ UNCHANGED <<numberHasAnimated, current, timer, effectDeps>>
    /\ UNCHANGED <<lifecycle, hook, element, config, children, reducedMotion,
                   viewVars, engineVars, scrollVars, obsVars, hoverVars,
                   paraVars, animationRef, timelineRef, timelineTargets,
                   isReady, isIntersecting, childStyles, currentValue,
                   sectionVars>>

AN_Mount ==
    /\ hook = "number"
    /\ lifecycle = "new"
    /\ lifecycle' = "mounted"
    /\ AN_Effect(enabled, timer)
    /\ UNCHANGED <<envVars, viewVars, engineVars, scrollVars, obsVars,
                   hoverVars, paraVars, animationRef, timelineRef,
                   timelineTargets, isReady, isIntersecting, childStyles,
                   enabled, currentValue, sectionVars>>

AN_Commit ==
    /\ hook = "number"
    /\ AN_Render(enabled)

\* ResultsSection renders with enabled={enableAnimations && isVisible} true
AN_Enable ==
    /\ hook = "number"
    /\ lifecycle = "mounted"
    /\ ~enabled
    /\ AN_Render(TRUE)

\* the interval callback: current += increment, with increment = value / steps
AN_Tick ==
    /\ hook = "number"
    /\ timer = "running"
    /\ current' = current + 1
    /\ IF (current + 1) * config.value >= config.value * Steps
       THEN /\ currentValue' = config.value
            /\ timer' = "cleared"
       ELSE /\ currentValue' = ((current + 1) * config.value) \div Steps
            /\ timer' = timer
    /\ renderPending' = (renderPending \/ currentValue' # currentValue)
    /\ UNCHANGED <<lifecycle, envVars, viewVars, engineVars, scrollVars,
                   obsVars, hoverVars, paraVars, animationRef, timelineRef,
                   timelineTargets, isReady, isIntersecting, childStyles,
                   enabled, numberHasAnimated, effectDeps, sectionVars>>

AN_Unmount ==
    /\ hook = "number"
    /\ lifecycle = "mounted"
    /\ lifecycle' = "unmounted"
    /\ renderPending' = FALSE
    /\ timer' = AN_Cleanup(timer)
    /\ UNCHANGED <<envVars, viewVars, engineVars, scrollVars, obsVars,
                   hoverVars, paraVars, animationRef, timelineRef,
                   timelineTargets, isReady, isIntersecting, childStyles,
                   enabled, currentValue, numberHasAnimated, current,
                   effectDeps, sectionVars>>

\* the value prop (0 for the other controllers, which have none)
AN_Value == IF "value" \in DOMAIN config THEN config.value ELSE 0

\* the span shows displayValue, not the running count:
\* enabled && currentValue < value ? currentValue.toLocaleString() : displayValue
AN_ShowsDisplayValue == ~(enabled /\ currentValue < AN_Value)

\* ----------------------------------------------------------- HeroSection
maxRetries == 2

ChainIds == 1..MaxChains

NoChain == [phase |-> "free", retryCount |-> 0]

\* the three state values the video effect depends on
HS_Deps == <<userPreference, connectionSpeed, isMobile>>

HS_State == <<videoLoaded, videoError, connectionSpeed, isMobile,
              userPreference>>

\* what detectConnectionSpeed can come to: with navigator.connection a
\* verdict at once, without it the image probe
HS_Detections == IF netApi = "api" THEN {"slow", "fast"} ELSE {"probe"}

\* checkMobile() finding m, then detectConnectionSpeed() coming to conn
\* ("skip": handleResize did not call it)
HS_Detect(m, conn) ==
    /\ isMobile' = m
    /\ connectionSpeed' = IF conn \in {"slow", "fast"} THEN conn
                          ELSE connectionSpeed
    /\ userPreference' = IF m \/ conn = "slow" THEN "static"
                         ELSE userPreference
    /\ probe' = IF conn = "probe" THEN "pending" ELSE probe

\* attemptVideoLoad() of a new effect run: retryCount = 0, video.load(), the
\* timeout timer and the canplay and error listeners
HS_StartChain(ch) ==
    LET id == CHOOSE c \in ChainIds :
                 /\ ch[c].phase = "free"
                 /\ \A d \in ChainIds : ch[d].phase = "free" => c <= d
    IN [ch EXCEPT ![id] = [phase |-> "loading", retryCount |-> 0]]

\* the catch block gives up: not (retryCount < maxRetries - 1)
HS_GivesUp(c) == ~(c.retryCount < maxRetries - 1)

\* the catch block, on the closure c: schedule the retry or give up
HS_Catch(c) ==
    IF HS_GivesUp(c)
    THEN [phase |-> "failed", retryCount |-> c.retryCount]
    ELSE [phase |-> "waiting", retryCount |-> c.retryCount + 1]

\* setVideoError(true); setVideoLoaded(false); setUserPreference('static')
HS_Fallback ==
    /\ videoError' = TRUE
    /\ videoLoaded' = FALSE
    /\ userPreference' = "static"

\* the second guard of the video effect
HS_Skips == (connectionSpeed = "slow" \/ isMobile) /\ userPreference # "video"

\* the first render shows the video (userPreference is 'video'); the
\* detection effect runs and sets state, then the video effect runs with the
\* state of the first render and calls attemptVideoLoad
HS_Mount ==
    /\ hook = "hero"
    /\ lifecycle = "new"
    /\ lifecycle' = "mounted"
    /\ \E m \in BOOLEAN, conn \in HS_Detections : HS_Detect(m, conn)
    /\ chains' = HS_StartChain(chains)
    /\ heroLoads' = heroLoads + 1
    /\ heroDeps' = HS_Deps
    /\ UNCHANGED <<hookVars, videoLoaded, videoError, netApi, solutionVars,
                   countdownVars>>
    /\ renderPending' = (HS_State' # HS_State)

\* a render: the video element is there iff userPreference is 'video'; the
\* video effect runs again when one of its dependencies changed, and its
\* cleanup only pauses the video
HS_Commit ==
    /\ hook = "hero"
    /\ renderPending' = FALSE
    /\ IF HS_Deps # heroDeps
       THEN /\ heroDeps' = HS_Deps
            /\ IF userPreference = "static"
               THEN UNCHANGED <<chains, heroLoads, videoLoaded, videoError>>
               ELSE IF HS_Skips
               THEN /\ videoError' = FALSE
                    /\ videoLoaded' = FALSE
                    /\ UNCHANGED <<chains, heroLoads>>
               ELSE /\ \E c \in ChainIds : chains[c].phase = "free"
                    /\ chains' = HS_StartChain(chains)
                    /\ heroLoads' = heroLoads + 1
                    /\ UNCHANGED <<videoLoaded, videoError>>
       ELSE UNCHANGED <<heroDeps, chains, heroLoads, videoLoaded, videoError>>
    /\ UNCHANGED <<lifecycle, hookVars, connectionSpeed, isMobile,
                   userPreference, probe, netApi, solutionVars, countdownVars>>

\* handleResize: checkMobile, and detectConnectionSpeed when the viewport is
\* far from square
HS_Resize ==
    /\ hook = "hero"
    /\ lifecycle = "mounted"
    /\ \E m \in BOOLEAN, conn \in HS_Detections \cup {"skip"} :
         HS_Detect(m, conn)
    /\ UNCHANGED <<lifecycle, hookVars, videoLoaded, videoError, heroDeps,
                   chains, heroLoads, netApi, solutionVars, countdownVars>>
    /\ renderPending' = (renderPending \/ HS_State' # HS_State)

\* img.onload of the speed test (a setState after unmount does nothing)
HS_ProbeLoad ==
    /\ hook = "hero"
    /\ probe = "pending"
    /\ probe' = "none"
    /\ IF lifecycle = "mounted"
       THEN \E speed \in {"fast", "slow"} :
              /\ connectionSpeed' = speed
              /\ userPreference' = IF speed = "slow" THEN "static"
                                   ELSE userPreference
       ELSE UNCHANGED <<connectionSpeed, userPreference>>
    /\ UNCHANGED <<lifecycle, hookVars, videoLoaded, videoError, isMobile,
                   heroDeps, chains, heroLoads, netApi, solutionVars,
                   countdownVars>>
    /\ renderPending' = (renderPending \/ HS_State' # HS_State)

\* img.onerror = () => setConnectionSpeed('slow')
HS_ProbeError ==
    /\ hook = "hero"
    /\ probe = "pending"
    /\ probe' = "none"
    /\ connectionSpeed' = IF lifecycle = "mounted" THEN "slow"
                          ELSE connectionSpeed
    /\ UNCHANGED <<lifecycle, hookVars, videoLoaded, videoError, isMobile,
                   userPreference, heroDeps, chains, heroLoads, netApi,
                   solutionVars, countdownVars>>
    /\ renderPending' = (renderPending \/ HS_State' # HS_State)

\* the video fires canplay: handleCanPlay of every closure that listens
\* resolves its promise, and the closure calls video.play()
HS_CanPlay ==
    /\ hook = "hero"
    /\ \E c \in ChainIds : chains[c].phase = "loading"
    /\ chains' = [c \in ChainIds |->
                    IF chains[c].phase = "loading"
                    THEN [chains[c] EXCEPT !.phase = "playing"]
                    ELSE chains[c]]
    /\ UNCHANGED <<lifecycle, renderPending, hookVars, videoLoaded, videoError,
                   connectionSpeed, isMobile, userPreference, heroDeps,
                   heroLoads, probe, netApi, solutionVars, countdownVars>>

\* the video fires error: handleError of every closure that listens rejects
\* its promise, and the onError prop (handleVideoError) runs while the
\* video element is rendered
HS_VideoError ==
    /\ hook = "hero"
    /\ heroLoads > 0
    /\ chains' = [c \in ChainIds |->
                    IF chains[c].phase = "loading"
                    THEN HS_Catch(chains[c]) ELSE chains[c]]
    /\ IF /\ lifecycle = "mounted"
          /\ \/ heroDeps[1] = "video"
             \/ \E c \in ChainIds :
                   chains[c].phase = "loading" /\ HS_GivesUp(chains[c])
       THEN HS_Fallback
       ELSE UNCHANGED <<videoError, videoLoaded, userPreference>>
    /\ UNCHANGED <<lifecycle, hookVars, connectionSpeed, isMobile, heroDeps,
                   heroLoads, probe, netApi, solutionVars, countdownVars>>
    /\ renderPending' = (renderPending \/ HS_State' # HS_State)

\* the catch block runs in closure c
HS_Fails(c) ==
    /\ chains' = [chains EXCEPT ![c] = HS_Catch(chains[c])]
    /\ IF lifecycle = "mounted" /\ HS_GivesUp(chains[c])
       THEN HS_Fallback
       ELSE UNCHANGED <<videoError, videoLoaded, userPreference>>
    /\ UNCHANGED <<lifecycle, hookVars, connectionSpeed, isMobile, heroDeps,
                   heroLoads, probe, netApi, solutionVars, countdownVars>>
    /\ renderPending' = (renderPending \/ HS_State' # HS_State)

\* the timeout timer of closure c fires before canplay or error
HS_Timeout(c) ==
    /\ hook = "hero"
    /\ chains[c].phase = "loading"
    /\ HS_Fails(c)

\* the promise of video.play() rejects
HS_PlayRejected(c) ==
    /\ hook = "hero"
    /\ chains[c].phase = "playing"
    /\ HS_Fails(c)

\* the promise of video.play() resolves
HS_PlayResolved(c) ==
    /\ hook = "hero"
    /\ chains[c].phase = "playing"
    /\ chains' = [chains EXCEPT ![c].phase = "done"]
    /\ IF lifecycle = "mounted"
       THEN videoLoaded' = TRUE /\ videoError' = FALSE
       ELSE UNCHANGED <<videoLoaded, videoError>>
    /\ UNCHANGED <<lifecycle, hookVars, connectionSpeed, isMobile,
                   userPreference, heroDeps, heroLoads, probe, netApi,
                   solutionVars, countdownVars>>
    /\ renderPending' = (renderPending \/ HS_State' # HS_State)

\* setTimeout(attemptVideoLoad, retryDelay) fires: the next attempt
HS_Retry(c) ==
    /\ hook = "hero"
    /\ chains[c].phase = "waiting"
    /\ chains' = [chains EXCEPT ![c].phase = "loading"]
    /\ heroLoads' = heroLoads + 1
    /\ UNCHANGED <<lifecycle, renderPending, hookVars, videoLoaded, videoError,
                   connectionSpeed, isMobile, userPreference, heroDeps, probe,
                   netApi, solutionVars, countdownVars>>

HS_Attempt ==
    \E c \in ChainIds :
       \/ HS_Timeout(c)
       \/ HS_PlayRejected(c)
       \/ HS_PlayResolved(c)
       \/ HS_Retry(c)

\* cleanups: removeEventListener('resize'), clearInterval of the carousel,
\* video.pause()
HS_Unmount ==
    /\ hook = "hero"
    /\ lifecycle = "mounted"
    /\ lifecycle' = "unmounted"
    /\ renderPending' = FALSE
    /\ UNCHANGED <<hookVars, sectionVars>>

\* ------------------------------------------------------- SolutionSection
\* solutionSteps.length
NumSteps == 3

StepIds == 1..NumSteps

\* a next step that stops at the last one
SS_NextIndex_NoWrap(i) == IF i = NumSteps THEN i ELSE i + 1

\* the step after the one at position i: (currentIndex + 1) % length, with
\* positions counted from 1
SS_NextIndex(i) == (i % NumSteps) + 1

\* the first render: autoplay is off, so the autoplay effect returns at once;
\* the second effect sets previewProgress to 0, which it already is
SS_Mount ==
    /\ hook = "solution"
    /\ lifecycle = "new"
    /\ lifecycle' = "mounted"
    /\ previewProgress' = 0
    /\ UNCHANGED <<renderPending, hookVars, heroVars, countdownVars,
                   activeStep, isAutoPlay, stepTicks, clicks, lastAdvance>>

\* a render with no state change: no dependency differs, no effect runs
SS_Commit ==
    /\ hook = "solution"
    /\ renderPending' = FALSE
    /\ UNCHANGED <<lifecycle, hookVars, sectionVars>>

\* the interval's callback, every 100 ms while autoplay is on, and the render
\* it causes: at 100 or more go to the next step (the effects of the render
\* restart the interval and set previewProgress to 0), else add 2
SS_Tick ==
    /\ hook = "solution"
    /\ lifecycle = "mounted"
    /\ isAutoPlay
    /\ IF previewProgress >= 100
       THEN /\ activeStep' = SS_NextIndex(activeStep)
            /\ previewProgress' = 0
            /\ stepTicks' = 0
            /\ lastAdvance' = activeStep
       ELSE /\ previewProgress' = previewProgress + 2
            /\ stepTicks' = stepTicks + 1
            /\ UNCHANGED <<activeStep, lastAdvance>>
    /\ UNCHANGED <<lifecycle, renderPending, hookVars, heroVars,
                   countdownVars, isAutoPlay, clicks>>

\* onStepClick={setActiveStep}: the user selects step s; when it is another
\* step the render restarts the interval and the second effect sets
\* previewProgress to 0
SS_SelectStep ==
    /\ hook = "solution"
    /\ lifecycle = "mounted"
    /\ clicks < MaxClicks
    /\ clicks' = clicks + 1
    /\ \E s \in StepIds :
         /\ activeStep' = s
         /\ previewProgress' = IF s # activeStep THEN 0 ELSE previewProgress
         /\ stepTicks' = IF s # activeStep THEN 0 ELSE stepTicks
    /\ UNCHANGED <<lifecycle, renderPending, hookVars, heroVars,
                   countdownVars, isAutoPlay, lastAdvance>>

toggleAutoPlay ==
    /\ hook = "solution"
    /\ lifecycle = "mounted"
    /\ clicks < MaxClicks
    /\ clicks' = clicks + 1
    /\ isAutoPlay' = ~isAutoPlay
    /\ previewProgress' = 0
    /\ stepTicks' = 0
    /\ UNCHANGED <<lifecycle, renderPending, hookVars, heroVars,
                   countdownVars, activeStep, lastAdvance>>

\* cleanup: clearInterval(interval)
SS_Unmount ==
    /\ hook = "solution"
    /\ lifecycle = "mounted"
    /\ lifecycle' = "unmounted"
    /\ UNCHANGED <<renderPending, hookVars, sectionVars>>

\* ------------------------------------- CountdownTimer in PricingSection
\* times are in seconds
SecondsPerMinute == 60
SecondsPerHour == 60 * 60
SecondsPerDay == 60 * 60 * 24

\* launchDeadline.setDate(launchDeadline.getDate() + 30)
LaunchDays == 30

\* const launchDeadline = new Date(); then 30 days added
launchDeadline == now + LaunchDays * SecondsPerDay

\* the object the interval's callback hands to setTimeLeft
CD_Fields(distance) ==
    [days    |-> distance \div SecondsPerDay,
     hours   |-> (distance % SecondsPerDay) \div SecondsPerHour,
     minutes |-> (distance % SecondsPerHour) \div SecondsPerMinute,
     seconds |-> distance % SecondsPerMinute]

\* PricingSection renders for the first time and hands launchDeadline to
\* CountdownTimer, whose effect starts the interval
CD_Mount ==
    /\ hook = "countdown"
    /\ lifecycle = "new"
    /\ lifecycle' = "mounted"
    /\ targetDate' = launchDeadline
    /\ UNCHANGED <<renderPending, hookVars, heroVars, solutionVars, now,
                   timeLeft>>

\* PricingSection renders again: launchDeadline is computed anew and handed
\* to CountdownTimer, whose effect (dependency targetDate) clears the
\* interval and starts a new one
CD_Commit ==
    /\ hook = "countdown"
    /\ renderPending' = FALSE
    /\ targetDate' = launchDeadline
    /\ UNCHANGED <<lifecycle, hookVars, heroVars, solutionVars, now, timeLeft>>

\* a second passes and the interval's callback runs
CD_Tick ==
    /\ hook = "countdown"
    /\ lifecycle = "mounted"
    /\ now < MaxTime
    /\ now' = now + 1
    /\ LET distance == targetDate - now'
       IN timeLeft' = IF distance > 0 THEN CD_Fields(distance) ELSE timeLeft
    /\ UNCHANGED <<lifecycle, renderPending, hookVars, heroVars, solutionVars,
                   targetDate>>

\* cleanup: clearInterval(timer)
CD_Unmount ==
    /\ hook = "countdown"
    /\ lifecycle = "mounted"
    /\ lifecycle' = "unmounted"
    /\ UNCHANGED <<renderPending, hookVars, sectionVars>>

\* ------------------------------------------------- the engine's frames
\* the properties a tween of this kind drives, and their end values
TargetOf(kind) ==
    CASE kind = "entrance" -> (IF hook = "gsap" THEN GA_Target ELSE SA_Target)
      [] kind = "enter" -> HA_EnterTarget
      [] kind = "leave" -> HA_LeaveTarget
      [] OTHER -> NoProps

\* one frame of a tween with `remaining` frames to go: linear interpolation,
\* exact on the last frame
Frame(style, target, remaining) ==
    Merge(style, [k \in DOMAIN target |->
                    style[k] + ((target[k] - style[k]) \div remaining)])

\* a running tween advances one frame; on its last frame it completes and
\* calls onComplete (a setState after unmount does nothing)
TweenTick(s) ==
    /\ tweens[s].status = "active"
    /\ tweens[s].kind # "stagger"
    /\ LET t == tweens[s]
           done == (t.progress + 1 = TweenSteps)
           calls == done /\ lifecycle = "mounted"
       IN
         /\ visual' = Frame(visual, TargetOf(t.kind), TweenSteps - t.progress)
         /\ tweens' = [tweens EXCEPT ![s] =
                          [status |-> IF done THEN "done" ELSE "active",
                           progress |-> t.progress + 1,
                           kind |-> t.kind]]
         /\ hasAnimated' = IF calls /\ hook = "scroll" THEN TRUE ELSE hasAnimated
         /\ isReady' = IF calls /\ hook = "gsap" THEN TRUE ELSE isReady
         /\ renderPending' =
               (renderPending
                \/ (calls /\ hook = "scroll" /\ ~hasAnimated)
                \/ (calls /\ hook = "gsap" /\ ~isReady))
    /\ UNCHANGED <<lifecycle, envVars, viewVars, issued, isVisible,
                   closureHasAnimated, animationRef, timelineRef,
                   timelineTargets,
                   isIntersecting, numberVars, sectionVars, childStyles, obsVars,
                   hoverVars, paraVars>>

\* a tween playing backwards goes one frame towards the values it started
\* from (only useGSAPAnimation exposes reverse); at its start it stops, and
\* no callback is called
ReverseTick(s) ==
    /\ tweens[s].status = "reversing"
    /\ LET t == tweens[s] IN
         /\ visual' = Frame(visual, GA_Hidden, t.progress)
         /\ tweens' = [tweens EXCEPT ![s] =
                          [status |-> IF t.progress = 1 THEN "paused"
                                      ELSE "reversing",
                           progress |-> t.progress - 1,
                           kind |-> t.kind]]
    /\ UNCHANGED <<lifecycle, envVars, viewVars, issued, renderPending,
                   scrollVars, obsVars, hoverVars, paraVars, otherRefs>>

Tick == \E s \in Slots : TweenTick(s) \/ ReverseTick(s)

\* frames of the whole timeline: child i starts (i - 1) * stagger frames in
ST_Total == TweenSteps + ((timelineTargets - 1) * StaggerOf(config))

\* staggerProps without its stagger: every child starts with the timeline
ST_StartOf_NoStagger(i) == 0

\* the frame of the timeline at which child i starts
ST_StartOf(i) == (i - 1) * StaggerOf(config)

\* one frame of the stagger timeline; on its last frame onComplete sets isReady
ST_Tick ==
    /\ \E s \in Slots :
         /\ tweens[s].status = "active"
         /\ tweens[s].kind = "stagger"
         /\ LET t == tweens[s]
                done == (t.progress + 1 = ST_Total)
                calls == done /\ lifecycle = "mounted"
            IN
              /\ childStyles' =
                    [i \in 1..children |->
                       IF /\ i <= timelineTargets
                          /\ ST_StartOf(i) <= t.progress
                          /\ t.progress < ST_StartOf(i) + TweenSteps
                       THEN Frame(childStyles[i], ST_Target,
                                  TweenSteps - (t.progress - ST_StartOf(i)))
                       ELSE childStyles[i]]
              /\ tweens' = [tweens EXCEPT ![s] =
                               [status |-> IF done THEN "done" ELSE "active",
                                progress |-> t.progress + 1,
                                kind |-> t.kind]]
              /\ isReady' = IF calls THEN TRUE ELSE isReady
              /\ renderPending' = (renderPending \/ (calls /\ ~isReady))
    /\ UNCHANGED <<lifecycle, envVars, viewVars, visual, issued, scrollVars,
                   animationRef, timelineRef, timelineTargets, isIntersecting,
                   numberVars, sectionVars, obsVars,
                   hoverVars, paraVars>>

\* ------------------------------------------------------ the environment
\* the user scrolls the element into or out of the viewport (left out for
\* the hover controller, which neither reads nor changes the viewport)
Scroll ==
    /\ lifecycle = "mounted"
    /\ hook \notin {"hover", "hero", "solution", "countdown"}
    /\ inView' = ~inView
    /\ entered' = TRUE
    /\ UNCHANGED <<lifecycle, envVars, engineVars, renderPending, scrollVars,
                   obsVars, hoverVars, paraVars, otherRefs>>

Commit ==
    \/ SA_Commit
    \/ GA_Commit
    \/ ST_Commit
    \/ HA_Commit
    \/ PX_Commit
    \/ IO_Commit
    \/ AN_Commit
    \/ HS_Commit
    \/ SS_Commit
    \/ CD_Commit

\* React renders the component because its state changed
StateRender ==
    /\ lifecycle = "mounted"
    /\ renderPending
    /\ Commit

\* React renders the component because its parent rendered
ParentRerender ==
    /\ lifecycle = "mounted"
    /\ Commit

Mount ==
    \/ SA_Mount
    \/ GA_Mount
    \/ ST_Mount
    \/ HA_Mount
    \/ PX_Mount
    \/ IO_Mount
    \/ AN_Mount
    \/ HS_Mount
    \/ SS_Mount
    \/ CD_Mount

Unmount ==
    \/ SA_Unmount
    \/ GA_Unmount
    \/ ST_Unmount
    \/ HA_Unmount
    \/ PX_Unmount
    \/ IO_Unmount
    \/ AN_Unmount
    \/ HS_Unmount
    \/ SS_Unmount
    \/ CD_Unmount

\* the sections modelled by themselves, without their animation controllers
Sections == {"hero", "solution", "countdown"}

Hooks ==
    {"gsap", "scroll", "stagger", "hover", "parallax", "io", "number"}
        \cup Sections

ConfigsOf(h) ==
    CASE h = "scroll" -> ScrollConfigs
      [] h = "gsap" -> ScrollConfigs
      [] h = "stagger" -> StaggerConfigs
      [] h = "hover" -> HoverConfigs
      [] h = "parallax" -> ParallaxConfigs
      [] h = "number" -> NumberConfigs
      [] OTHER -> {NoProps}

Init ==
    /\ hook \in Hooks
    /\ lifecycle = "new"
    /\ element \in (IF hook \in Sections THEN {TRUE} ELSE BOOLEAN)
    /\ config \in ConfigsOf(hook)
    /\ children \in (IF hook = "stagger" THEN 0..MaxChildren ELSE {0})
    /\ inView \in (IF hook \in Sections THEN {FALSE} ELSE BOOLEAN)
    /\ entered = inView
    /\ reducedMotion \in (IF hook \in Sections THEN {FALSE} ELSE BOOLEAN)
    /\ visual = RestStyle
    /\ tweens = [s \in Slots |-> NoTween]
    /\ issued = 0
    /\ renderPending = FALSE
    /\ isVisible = FALSE
    /\ hasAnimated = FALSE
    /\ closureHasAnimated = FALSE
    /\ animationRef = 0
    /\ observer = "none"
    /\ reported = "none"
    /\ isReady = FALSE
    /\ timelineRef = 0
    /\ timelineTargets = 0
    /\ enterAnimationRef = 0
    /\ leaveAnimationRef = 0
    /\ isHovered = FALSE
    /\ pointerInside = FALSE
    /\ handlersBound = FALSE
    /\ scrollTriggerRef = "none"
    /\ liveTriggers = 0
    /\ progress = 0
    /\ childStyles = [i \in 1..children |-> RestStyle]
    /\ isIntersecting = FALSE
    /\ enabled \in (IF hook = "number" THEN BOOLEAN ELSE {FALSE})
    /\ currentValue = 0
    /\ numberHasAnimated = FALSE
    /\ current = 0
    /\ timer = "none"
    /\ effectDeps = <<FALSE, FALSE>>
    /\ videoLoaded = FALSE
    /\ videoError = FALSE
    /\ connectionSpeed = "unknown"
    /\ isMobile = FALSE
    /\ userPreference = "video"
    /\ heroDeps = <<"video", "unknown", FALSE>>
    /\ chains = [c \in ChainIds |-> NoChain]
    /\ heroLoads = 0
    /\ probe = "none"
    /\ netApi \in (IF hook = "hero" THEN {"api", "none"} ELSE {"api"})
    /\ activeStep = 1
    /\ isAutoPlay = FALSE
    /\ previewProgress = 0
    /\ stepTicks = 0
    /\ clicks = 0
    /\ lastAdvance = 0
    /\ now = 0
    /\ targetDate = 0
    /\ timeLeft = [days |-> 0, hours |-> 0, minutes |-> 0, seconds |-> 0]

Next ==
    \/ Mount
    \/ Unmount
    \/ StateRender
    \/ ParentRerender
    \/ SA_Intersect
    \/ IO_Intersect
    \/ IO_Attach
    \/ restart
    \/ pause
    \/ play
    \/ reverse
    \/ handleMouseEnter
    \/ handleMouseLeave
    \/ HA_Rebind
    \/ HA_PointerUnheard
    \/ PX_Update
    \/ Tick
    \/ ST_Tick
    \/ ST_AddChild
    \/ AN_Enable
    \/ AN_Tick
    \/ HS_Resize
    \/ HS_ProbeLoad
    \/ HS_ProbeError
    \/ HS_CanPlay
    \/ HS_VideoError
    \/ HS_Attempt
    \/ SS_Tick
    \/ SS_SelectStep
    \/ toggleAutoPlay
    \/ CD_Tick
    \/ Scroll

Spec == Init /\ [][Next]_vars

\* the browser delivers notifications, React flushes pending renders and the
\* GSAP ticker advances running tweens; the user and the parent owe nothing
FairSpec ==
    /\ Init
    /\ [][Next]_vars
    /\ WF_vars(StateRender)
    /\ WF_vars(SA_Intersect)
    /\ WF_vars(IO_Intersect)
    /\ WF_vars(Tick)
    /\ WF_vars(ST_Tick)
    /\ WF_vars(AN_Tick)
    /\ WF_vars(SS_Tick)

\* ------------------------------------------------------------ properties
\* seconds, in tenths, a tween of this kind takes
DurationOf(kind) ==
    IF kind \in {"enter", "leave"} THEN 3 ELSE mergedConfig.duration

\* C1: useScrollAnimation issues its entrance transition at most once,
\* whatever intersections, renders and completions occur.
C1_IssuedAtMostOnce == hook = "scroll" => issued <= 1

\* C2: once hasAnimated is true the element's style equals the target of the
\* scroll animation for as long as the component is mounted.
C2_AnimatedAtTarget ==
    (hook = "scroll" /\ lifecycle = "mounted" /\ hasAnimated)
        => \A k \in DOMAIN SA_Target : visual[k] = SA_Target[k]

\* C3: after unmount no tween, timeline, intersection watch or ScrollTrigger
\* of the instance is alive, for every controller.
C3_NothingLiveAfterUnmount ==
    lifecycle = "unmounted"
        => /\ LiveTweens = {}
           /\ observer # "observing"
           /\ liveTriggers = 0

\* C4: useHoverAnimation has at most one running tween at any instant, the
\* one started by the most recent pointer event.
C4_OneHoverTween ==
    hook = "hover"
        => /\ Cardinality(LiveTweens) <= 1
           /\ \A s \in LiveTweens :
                /\ s = (IF isHovered THEN enterAnimationRef ELSE leaveAnimationRef)
                /\ tweens[s].kind = (IF isHovered THEN "enter" ELSE "leave")

C6_ReducedMotionNoTween ==
    reducedMotion => \A s \in LiveTweens : DurationOf(tweens[s].kind) = 0

\* C7: while mounted, a triggered useScrollAnimation eventually reaches
\* Animated (hasAnimated true).
C7_EventuallyAnimated ==
    [](hook = "scroll" /\ lifecycle = "mounted" /\ isVisible
         => <>(hasAnimated \/ lifecycle = "unmounted"))

\* C8: useStaggerAnimation issues no transition for a container that has not
\* yet intersected the viewport.
C8_StaggerAfterEntry == (hook = "stagger" /\ issued > 0) => entered

\* C9: the yPercent useParallax applies equals speed x progress x 100, for
\* every configuration.
C9_YPercentFromProgress ==
    hook = "parallax" => visual.yPercent = YPercent(config.speed, progress)

\* C10: once the first qualifying intersection has fired no intersection
\* watch on the element is active, and none is after unmount.
C10_WatchReleased ==
    /\ (hook = "scroll" /\ isVisible) => observer # "observing"
    /\ (hook = "io" /\ isIntersecting) => observer # "observing"
    /\ (hook \in {"scroll", "io"} /\ lifecycle = "unmounted") => observer # "observing"

\* C11: once the transition of useGSAPAnimation has completed (isReady) the
\* controller is at rest: exactly one transition was issued, none is running
\* and animationRef holds none.
C11_OneTransitionThenRest ==
    (hook = "gsap" /\ lifecycle = "mounted" /\ isReady)
        => /\ issued = 1
           /\ LiveTweens = {}
           /\ animationRef = 0

\* what the early returns test: the ref holds no node, or the stagger
\* container has no children
NothingToAnimate == ~element \/ (hook = "stagger" /\ children = 0)

\* C12: a controller with nothing to animate does nothing: effect setup,
\* renders, hover handlers, the four controls and unmount create no tween,
\* timeline, observer or ScrollTrigger, move nothing and change no state.
C12_NothingToAnimateNoOp ==
    (hook \in {"gsap", "scroll", "parallax", "stagger", "hover"}
       /\ NothingToAnimate)
        => /\ tweens = [s \in Slots |-> NoTween]
           /\ issued = 0
           /\ observer = "none"
           /\ scrollTriggerRef = "none"
           /\ liveTriggers = 0
           /\ animationRef = 0
           /\ timelineRef = 0
           /\ enterAnimationRef = 0
           /\ leaveAnimationRef = 0
           /\ visual = RestStyle
           /\ \A i \in DOMAIN childStyles : childStyles[i] = RestStyle
           /\ ~isVisible
           /\ ~hasAnimated
           /\ ~isReady
           /\ ~isHovered
           /\ ~renderPending

\* a stagger container without children went through effect setup and a
\* scroll
C12_Witness ==
    /\ hook = "stagger"
    /\ lifecycle = "mounted"
    /\ element
    /\ children = 0
    /\ inView # entered

\* C13: whenever the element watched by useIntersectionObserver is attached
\* and in view, also when it was attached after effect setup, isIntersecting
\* becomes true (unless the element leaves the viewport or the component
\* unmounts first).
C13_LateAttachDetected ==
    [](hook = "io" /\ lifecycle = "mounted" /\ element /\ inView
         => <>(isIntersecting \/ ~inView \/ lifecycle = "unmounted"))

\* a child as gsap.set left it at effect setup
ST_HiddenStyle == GsapSet(RestStyle, ST_Hidden)

\* C14: while the timeline of useStaggerAnimation runs, the one timeline.to
\* drives all N children it read and the k-th of them (k = 0 .. N-1) has
\* left its initial state exactly when more than k x stagger frames of the
\* timeline have passed.
C14_StaggeredStarts ==
    (hook = "stagger" /\ timelineRef # 0
       /\ tweens[timelineRef].status = "active")
        => /\ LiveTweens = {timelineRef}
           /\ \A i \in 1..timelineTargets :
                childStyles[i] # ST_HiddenStyle
                    <=> tweens[timelineRef].progress
                            > (i - 1) * StaggerOf(config)

\* the first child is on its way while the last one still waits
C14_Witness ==
    /\ hook = "stagger"
    /\ timelineRef # 0
    /\ tweens[timelineRef].status = "active"
    /\ timelineTargets >= 2
    /\ childStyles[1] # ST_HiddenStyle
    /\ childStyles[timelineTargets] = ST_HiddenStyle

\* the fade-in config of the section headlines
FadeInConfig == [duration |-> 10, transform |-> [opacity |-> 100, y |-> 0]]

\* C15: with the fade-in config, from mount until the first qualifying
\* intersection the element of useScrollAnimation is hidden: opacity 0,
\* y offset 50, scale 0.9.
C15_HiddenUntilIntersection ==
    (hook = "scroll" /\ lifecycle = "mounted" /\ element /\ ~isVisible
       /\ config = FadeInConfig)
        => /\ visual.opacity = 0
           /\ visual.y = 50
           /\ visual.scale = 90

\* C16: isIntersecting, isVisible and hasAnimated start false, no step takes
\* one of them from true back to false, and hasAnimated is true only while
\* isVisible is true.
C16_OneShotSignals ==
    /\ (~isIntersecting /\ ~isVisible /\ ~hasAnimated)
    /\ [](hasAnimated => isVisible)
    /\ [][/\ isIntersecting => isIntersecting'
          /\ isVisible => isVisible'
          /\ hasAnimated => hasAnimated']_vars

\* Animated was reached and a later render has set up the effect again
C16_Witness ==
    /\ hook = "scroll"
    /\ lifecycle = "mounted"
    /\ isVisible
    /\ hasAnimated
    /\ ~renderPending
    /\ observer = "observing"

\* C17: as long as the element of useScrollAnimation has never intersected
\* the viewport, isVisible and hasAnimated are false and no transition has
\* been issued, whatever renders occurred.
C17_NeverSeenNeverAnimated ==
    (hook = "scroll" /\ ~entered)
        => /\ ~isVisible
           /\ ~hasAnimated
           /\ issued = 0
           /\ LiveTweens = {}
           /\ animationRef = 0

\* out of view since mount: the observer has reported "not intersecting"
C17_Witness ==
    /\ hook = "scroll"
    /\ lifecycle = "mounted"
    /\ element
    /\ ~entered
    /\ reported = "out"
    /\ observer = "observing"

\* C18: while the element of useParallax is mounted exactly one
\* ScrollTrigger of the instance is alive, scrollTriggerRef holds it and a
\* scroll tick can run its onUpdate, also after renders and however many
\* ticks it has served; after unmount none is alive.
C18_OneLiveTrigger ==
    (hook = "parallax" /\ element)
        => /\ lifecycle = "mounted"
                => /\ liveTriggers = 1
                   /\ scrollTriggerRef = "live"
                   /\ ENABLED PX_Update
           /\ lifecycle = "unmounted"
                => /\ liveTriggers = 0
                   /\ scrollTriggerRef = "killed"

\* the ScrollTrigger has applied an update at the end of its range and is
\* still the only one
C18_Witness ==
    /\ hook = "parallax"
    /\ lifecycle = "mounted"
    /\ element
    /\ progress = 100
    /\ liveTriggers = 1

\* C19: once useStaggerAnimation has read the children and made its
\* timeline, no step changes the style of a child that was not among those
\* it read (a child appended since).
C19_LateChildUntouched ==
    [][\A i \in DOMAIN childStyles :
          (hook = "stagger" /\ timelineRef # 0 /\ i > timelineTargets)
              => childStyles'[i] = childStyles[i]]_vars

\* C20: the number AnimatedNumber counts never decreases, and once the
\* component is enabled the count reaches the target value (unless the
\* component unmounts first) and from then on the span shows displayValue.
C20_CountUpCompletes ==
    /\ [][currentValue' >= currentValue]_vars
    /\ [](hook = "number" /\ lifecycle = "mounted" /\ enabled
            => <>(currentValue = AN_Value \/ lifecycle = "unmounted"))
    /\ [](hook = "number" /\ currentValue = AN_Value
            => []AN_ShowsDisplayValue)

\* the closures of attemptVideoLoad with an attempt under way or a retry
\* timer set
HS_Pending ==
    {c \in ChainIds : chains[c].phase \in {"loading", "playing", "waiting"}}

\* the closures with an attempt under way
HS_Attempting ==
    {c \in ChainIds : chains[c].phase \in {"loading", "playing"}}

\* the closure that the latest run of the video effect made
HS_LatestChain ==
    LET used == {c \in ChainIds : chains[c].phase # "free"}
    IN IF used = {} THEN 0
       ELSE CHOOSE c \in used : \A d \in used : d <= c

\* videoError = true, videoLoaded = false, userPreference = 'static'
HS_InFallback ==
    /\ hook = "hero"
    /\ videoError
    /\ ~videoLoaded
    /\ userPreference = "static"

\* C21: HeroSection calls video.load() in no state where the device has been
\* detected as mobile or the connection has been detected as slow.
C21_NoLoadOnMobileOrSlow ==
    [][heroLoads' > heroLoads => ~isMobile /\ connectionSpeed # "slow"]_vars

\* C22: a mounted HeroSection has at most one load attempt under way at a
\* time and makes at most maxRetries calls of video.load() in all.
C22_OneAttemptAtATime ==
    hook = "hero" =>
        /\ heroLoads <= maxRetries
        /\ Cardinality(HS_Attempting) <= 1

\* C23: once HeroSection is in the fallback state (videoError, not
\* videoLoaded, userPreference 'static') every step leaves it there.
C23_FallbackAbsorbing ==
    [][HS_InFallback => HS_InFallback']_vars

\* C24: whenever connectionSpeed is 'slow', userPreference is 'static'.
C24_SlowMeansStatic ==
    (hook = "hero" /\ connectionSpeed = "slow") => userPreference = "static"

\* C27: a timer or listener of attemptVideoLoad is pending only while
\* HeroSection is mounted and only for the closure of the current run of the
\* video effect; after an unmount or a teardown of that effect none of an
\* earlier run is left.
C27_NothingLeftAfterTeardown ==
    \A c \in HS_Pending :
       /\ lifecycle = "mounted"
       /\ heroDeps[1] = "video"
       /\ c = HS_LatestChain

\* ticks of 100 ms in 5 seconds
TicksPerStep == 50

\* C25: under autoplay a step that the interval moves on from was active for
\* exactly 50 ticks (the ticks counted since it became active, and the tick
\* that moves on), and previewProgress stays within 0..100.
C25_FiveSecondsPerStep ==
    /\ [][(hook = "solution" /\ activeStep' # activeStep /\ clicks' = clicks)
            => stepTicks + 1 = TicksPerStep]_vars
    /\ [](previewProgress \in 0..100)

CD_Total(t) ==
    t.days * SecondsPerDay + t.hours * SecondsPerHour
        + t.minutes * SecondsPerMinute + t.seconds

\* C28: once CountdownTimer shows a time remaining (after the zeros it
\* starts with), no step makes the time shown larger, and no field shown is
\* ever negative.
C28_CountdownNeverIncreases ==
    /\ [][CD_Total(timeLeft) > 0
            => CD_Total(timeLeft') <= CD_Total(timeLeft)]_vars
    /\ [](/\ timeLeft.days >= 0
          /\ timeLeft.hours >= 0
          /\ timeLeft.minutes >= 0
          /\ timeLeft.seconds >= 0)

====
